---- MODULE Spec2Model ----
\* Frame threat assessment: the analyze_frame handlers of
\* terminator-vision/api/index.py ("api") and
\* terminator-vision/backend/server.py ("server").
EXTENDS Integers, Sequences, FiniteSets, TLC

\* ---------------------------------------------------------------- bounds
\* Longest payload string, in payload units (see Units).
MaxLen == 4
\* Most candidate boxes the detector sees in one frame.
MaxDet == 2
\* Requests in flight at once under SpecConc.
NumRequests == 2

\* ---------------------------------------------------------- constants
\* conf=0.5 of api/index.py line 70, in thousandths.
ApiConf == 500
\* backend/server.py line 54 passes no conf: the detector applies its own
\* default threshold (0.25 for the YOLO predictor), in thousandths.
DefaultConf == 250

Services == {"api", "server"}
Requests == 1 .. NumRequests

\* ------------------------------------------------------------ payloads
\* A payload string is a sequence of units. "," is the comma; every other unit
\* stands for one base-64 quantum (four characters of the base-64 alphabet):
\* "G" encodes bytes that begin a decodable image, "Z" encodes other bytes and
\* "u" is a truncated quantum, on which b64decode raises "Incorrect padding".
Units == {",", "G", "Z", "u"}
B64Alphabet == {"G", "Z", "u"}

RECURSIVE SeqsUpTo(_, _)
SeqsUpTo(S, n) ==
    IF n = 0 THEN {<<>>}
    ELSE LET shorter == SeqsUpTo(S, n - 1)
         IN  shorter \cup {Append(s, x) : s \in {t \in shorter : Len(t) = n - 1}, x \in S}

\* What the client may send: a body that is not JSON (or not an object), an
\* object without 'image', an 'image' that is a non-empty non-string value, or
\* an 'image' string.
Inputs ==
    {[kind |-> "badjson", image |-> <<>>],
     [kind |-> "absent",  image |-> <<>>],
     [kind |-> "nonstr",  image |-> <<>>]}
    \cup {[kind |-> "str", image |-> s] : s \in SeqsUpTo(Units, MaxLen)}

\* `not image_data`: None and the empty string are falsy.
Falsy(inp) == inp.kind = "absent" \/ (inp.kind = "str" /\ inp.image = <<>>)

\* str.split(','): the pieces between the commas, in order.
RECURSIVE Split(_)
Split(s) ==
    IF s = <<>> THEN << <<>> >>
    ELSE IF Head(s) = "," THEN << <<>> >> \o Split(Tail(s))
    ELSE LET rest == Split(Tail(s))
         IN  << <<Head(s)>> \o Head(rest) >> \o Tail(rest)

HasComma(s) == \E i \in 1 .. Len(s) : s[i] = ","

\* api: image_data.split(',')[1] if ',' in image_data else image_data.
\* The result is <<body>>; python's index 1 is the second piece.
ApiEncodedData(s) == IF HasComma(s) THEN <<Split(s)[2]>> ELSE <<s>>

\* server: image_data.split(',')[1]; <<>> stands for the IndexError of a
\* string with no comma.
ServerEncodedData(s) == IF Len(Split(s)) >= 2 THEN <<Split(s)[2]>> ELSE <<>>

\* base64.b64decode(body) (validate=False): characters outside the alphabet are
\* discarded; a truncated quantum raises binascii.Error.
B64Raises(body) == \E i \in 1 .. Len(body) : body[i] = "u"
B64Bytes(body) == SelectSeq(body, LAMBDA c : c \in B64Alphabet)

\* cv2.imdecode(buf, IMREAD_COLOR): raises on an empty buffer, returns None
\* when the bytes are no image, and the pixel grid otherwise.
ImdecodeRaises(bytes) == bytes = <<>>
Imdecode(bytes) == IF Head(bytes) = "G" THEN "pixels" ELSE "None"

\* ---------------------------------------------------------- detections
\* model.names: class id -> label (the detector's vocabulary, in part).
ClassIds == {0, 16, 39, 41, 43}
names == (0 :> "person") @@ (16 :> "dog") @@ (39 :> "bottle")
         @@ (41 :> "cup") @@ (43 :> "knife")

\* Confidences of candidate boxes, in thousandths.
Confidences == {300, 625}

Boxes == [cls : ClassIds, conf : Confidences]
Scenes == SeqsUpTo(Boxes, MaxDet)

\* The detector keeps the candidates at or above the threshold it is given.
Detector(scene, conf) == SelectSeq(scene, LAMBDA b : b.conf >= conf)

\* round(confidence, 2): thousandths to hundredths, ties to even.
Round2(c) ==
    LET q == c \div 10
        r == c % 10
    IN  IF r > 5 \/ (r = 5 /\ q % 2 = 1) THEN q + 1 ELSE q

\* label.upper()
Upper(l) ==
    CASE l = "person" -> "PERSON"
      [] l = "dog"    -> "DOG"
      [] l = "bottle" -> "BOTTLE"
      [] l = "cup"    -> "CUP"
      [] l = "knife"  -> "KNIFE"
      [] OTHER        -> l

\* --------------------------------------------------------- threat table
ThreatMapApi ==
    ("person" :> "SAFE") @@ ("cell phone" :> "CAUTION") @@ ("bottle" :> "CAUTION")
    @@ ("cup" :> "CAUTION") @@ ("knife" :> "DANGER") @@ ("scissors" :> "DANGER")
    @@ ("gun" :> "DANGER")

ThreatMapServer ==
    ("person" :> "SAFE") @@ ("cell phone" :> "DANGER") @@ ("bottle" :> "CAUTION")
    @@ ("cup" :> "CAUTION") @@ ("knife" :> "DANGER") @@ ("scissors" :> "DANGER")
    @@ ("gun" :> "DANGER")

InitialThreatMap == [s \in Services |-> IF s = "api" THEN ThreatMapApi ELSE ThreatMapServer]

\* THREAT_MAP.get(label, "SAFE")
Get(table, label) == IF label \in DOMAIN table THEN table[label] ELSE "SAFE"

\* The table after THREAT_MAP.get(label, "SAFE"): get, unlike setdefault,
\* stores nothing.
TableAfterSetdefault(table, label) ==
    IF label \in DOMAIN table THEN table ELSE (label :> "SAFE") @@ table
TableAfterGet(table, label) == table

\* api lines 87-90: the running level after one detection of level `threat`.
ApiEscalateNoGuard(threat_level, threat) ==
    IF threat = "DANGER" THEN "DANGER"
    ELSE IF threat = "CAUTION" THEN "CAUTION"
    ELSE threat_level
ApiEscalate(threat_level, threat) ==
    IF threat = "DANGER" THEN "DANGER"
    ELSE IF threat = "CAUTION" /\ threat_level # "DANGER" THEN "CAUTION"
    ELSE threat_level

\* api lines 77-90: one iteration of the loop over the detections.
ApiLoopBody(st, detection, table) ==
    LET class_name == names[detection.cls]
        threat     == Get(table, class_name)
    IN  [threat  |-> ApiEscalate(st.threat, threat),
         label   |-> st.label,
         objects |-> Append(st.objects,
                            [class |-> class_name, confidence |-> Round2(detection.conf)]),
         stop    |-> FALSE]

\* server lines 68-85: one iteration of the loop over the boxes; stop is the
\* break of line 78.
ServerLoopBody(st, box, table) ==
    LET label  == names[box.cls]
        threat == Get(table, label)
    IN  IF threat = "DANGER"
        THEN [threat |-> "DANGER", label |-> Upper(label), objects |-> st.objects, stop |-> TRUE]
        ELSE IF threat = "CAUTION" /\ st.threat # "DANGER"
        THEN [threat |-> "CAUTION", label |-> Upper(label), objects |-> st.objects, stop |-> FALSE]
        ELSE IF threat = "SAFE" /\ st.threat = "SAFE"
        THEN [threat |-> st.threat, label |-> Upper(label), objects |-> st.objects, stop |-> FALSE]
        ELSE [st EXCEPT !.stop = FALSE]

LoopBody(svc, st, d, table) ==
    IF svc = "api" THEN ApiLoopBody(st, d, table) ELSE ServerLoopBody(st, d, table)

\* The loop's variables before the first iteration (api 73-74, server 56-57).
LoopInit == [threat |-> "SAFE", label |-> "SCANNING...", objects |-> <<>>, stop |-> FALSE]

\* The whole loop over D, from iteration i on.
RECURSIVE RunLoop(_, _, _, _, _)
RunLoop(svc, st, D, i, table) ==
    IF i > Len(D) \/ st.stop THEN st
    ELSE RunLoop(svc, LoopBody(svc, st, D[i], table), D, i + 1, table)

\* The record returned after the loop (api 92-96, server 87).
Verdict(svc, st) ==
    IF svc = "api"
    THEN [threat |-> st.threat, objects |-> st.objects, count |-> Len(st.objects)]
    ELSE [threat |-> st.threat, label |-> st.label]

\* The record returned by the handler's except clause (api 98-99, server 89-91).
ExceptResult(svc, e) ==
    IF svc = "api" THEN [threat |-> "SAFE", error |-> <<e>>]
    ELSE [threat |-> "SAFE", label |-> "ERROR"]

NoDataResult == [threat |-> "SAFE", label |-> "NO DATA"]
DecodeErrorResult(e) == [threat |-> "SAFE", error |-> <<"Decode error: ", e>>]
InvalidImageResult == [threat |-> "SAFE", label |-> "INVALID IMAGE"]
ModelNotLoadedResult == [threat |-> "SAFE", error |-> <<"Model not loaded">>]

\* --------------------------------------------------------------- state
VARIABLES
    model,         \* per service: TRUE when YOLO('yolov8n.pt') loaded at start
    THREAT_MAP,    \* per service: the module-level THREAT_MAP dict
    pc,            \* per request: where the handler stands
    request,       \* per request: the service it was sent to and its body
    encoded_data,  \* per request: <<body>> once assigned, <<>> before
    frame,         \* per request: "unset", "None" or "pixels"
    detections,    \* per request: the boxes the detector returned
    idx,           \* per request: the next box the loop visits
    loop,          \* per request: threat level, label and objects of the loop
    response,      \* per request: the records the handler returned
    escaped,       \* per request: TRUE when an exception left the handler
    calls,         \* per request: invocations of model(frame, ...)
    call_conf,     \* per request: the threshold of the invocation, 0 before
    oracle,        \* per request: what the detector did when invoked
    failure,       \* per request: the first stage failure that occurred
    via            \* per request: the return statement that answered

vars == <<model, THREAT_MAP, pc, request, encoded_data, frame, detections, idx,
          loop, response, escaped, calls, call_conf, oracle, failure, via>>

shared == <<model, THREAT_MAP>>
decoded == <<encoded_data, frame>>
detected == <<detections, idx, loop, calls, call_conf, oracle>>

NoOracle == [raises |-> FALSE, scene |-> <<>>]

Init ==
    /\ model \in [Services -> BOOLEAN]
    /\ THREAT_MAP = InitialThreatMap
    /\ pc = [r \in Requests |-> "idle"]
    /\ request = [r \in Requests |-> [svc |-> "api", inp |-> [kind |-> "absent", image |-> <<>>]]]
    /\ encoded_data = [r \in Requests |-> <<>>]
    /\ frame = [r \in Requests |-> "unset"]
    /\ detections = [r \in Requests |-> <<>>]
    /\ idx = [r \in Requests |-> 1]
    /\ loop = [r \in Requests |-> LoopInit]
    /\ response = [r \in Requests |-> <<>>]
    /\ escaped = [r \in Requests |-> FALSE]
    /\ calls = [r \in Requests |-> 0]
    /\ call_conf = [r \in Requests |-> 0]
    /\ oracle = [r \in Requests |-> NoOracle]
    /\ failure = [r \in Requests |-> "none"]
    /\ via = [r \in Requests |-> "none"]

\* A return statement: the handler answers with res and ends.
Finish(r, res, how, fail) ==
    /\ pc' = [pc EXCEPT ![r] = "done"]
    /\ response' = [response EXCEPT ![r] = Append(@, res)]
    /\ via' = [via EXCEPT ![r] = how]
    /\ failure' = [failure EXCEPT ![r] = IF @ = "none" THEN fail ELSE @]

\* An exception raised inside the handler's try block: `except Exception`
\* (api 98-99, server 89-91) returns the safe record.
ExceptEscapes(r, e, fail) ==
    /\ pc' = [pc EXCEPT ![r] = "done"]
    /\ escaped' = [escaped EXCEPT ![r] = TRUE]
    /\ via' = [via EXCEPT ![r] = "raise"]
    /\ failure' = [failure EXCEPT ![r] = IF @ = "none" THEN fail ELSE @]
    /\ UNCHANGED response
OuterExcept(r, e, fail) ==
    /\ Finish(r, ExceptResult(request[r].svc, e), "except", fail)
    /\ UNCHANGED escaped

\* A return before the loop.
EarlyReturn(r, res, fail) ==
    /\ Finish(r, res, "early", fail)
    /\ UNCHANGED escaped

\* A request arrives at one of the two services.
Start(r, II) ==
    /\ pc[r] = "idle"
    /\ \E svc \in Services, inp \in II :
           request' = [request EXCEPT ![r] = [svc |-> svc, inp |-> inp]]
    /\ pc' = [pc EXCEPT ![r] = "init"]
    /\ UNCHANGED <<shared, decoded, detected, response, escaped, failure, via>>

\* api 49-53, server 42-46: read the body, take 'image', answer NO DATA when
\* it is missing or empty.
Receive(r) ==
    /\ pc[r] = "init"
    /\ LET inp == request[r].inp
       IN  IF inp.kind = "badjson"
           THEN OuterExcept(r, "JSONDecodeError", "RequestError")
           ELSE IF Falsy(inp)
           THEN EarlyReturn(r, NoDataResult, "NoData")
           ELSE /\ pc' = [pc EXCEPT ![r] = "decoding"]
                /\ UNCHANGED <<response, escaped, failure, via>>
    /\ UNCHANGED <<shared, request, decoded, detected>>

\* api 56-64: split, base-64 decode and image decode inside the inner try,
\* then the `frame is None` check.
ApiDecode(r) ==
    /\ pc[r] = "decoding"
    /\ request[r].svc = "api"
    /\ LET inp  == request[r].inp
           enc  == ApiEncodedData(inp.image)
           body == enc[1]
       IN  IF inp.kind = "nonstr"
           THEN /\ EarlyReturn(r, DecodeErrorResult("TypeError"), "DecodeError")
                /\ UNCHANGED decoded
           ELSE IF B64Raises(body)
           THEN /\ EarlyReturn(r, DecodeErrorResult("binascii.Error"), "DecodeError")
                /\ encoded_data' = [encoded_data EXCEPT ![r] = enc]
                /\ UNCHANGED frame
           ELSE IF ImdecodeRaises(B64Bytes(body))
           THEN /\ EarlyReturn(r, DecodeErrorResult("cv2.error"), "DecodeError")
                /\ encoded_data' = [encoded_data EXCEPT ![r] = enc]
                /\ UNCHANGED frame
           ELSE /\ encoded_data' = [encoded_data EXCEPT ![r] = enc]
                /\ frame' = [frame EXCEPT ![r] = Imdecode(B64Bytes(body))]
                /\ IF Imdecode(B64Bytes(body)) = "None"
                   THEN EarlyReturn(r, InvalidImageResult, "InvalidImage")
                   ELSE /\ pc' = [pc EXCEPT ![r] = "detecting"]
                        /\ UNCHANGED <<response, escaped, failure, via>>
    /\ UNCHANGED <<shared, request, detected>>

\* server 49-51: split, base-64 decode and image decode; every exception goes
\* to the handler's except clause and a None frame is carried forward.
ServerDecode(r) ==
    /\ pc[r] = "decoding"
    /\ request[r].svc = "server"
    /\ LET inp == request[r].inp
           enc == ServerEncodedData(inp.image)
       IN  IF inp.kind = "nonstr"
           THEN /\ OuterExcept(r, "AttributeError", "DecodeError")
                /\ UNCHANGED decoded
           ELSE IF enc = <<>>
           THEN /\ OuterExcept(r, "IndexError", "DecodeError")
                /\ UNCHANGED decoded
           ELSE IF B64Raises(enc[1])
           THEN /\ OuterExcept(r, "binascii.Error", "DecodeError")
                /\ encoded_data' = [encoded_data EXCEPT ![r] = enc]
                /\ UNCHANGED frame
           ELSE IF ImdecodeRaises(B64Bytes(enc[1]))
           THEN /\ OuterExcept(r, "cv2.error", "DecodeError")
                /\ encoded_data' = [encoded_data EXCEPT ![r] = enc]
                /\ UNCHANGED frame
           ELSE /\ encoded_data' = [encoded_data EXCEPT ![r] = enc]
                /\ frame' = [frame EXCEPT ![r] = Imdecode(B64Bytes(enc[1]))]
                /\ pc' = [pc EXCEPT ![r] = "detecting"]
                /\ failure' = [failure EXCEPT ![r] =
                                  IF Imdecode(B64Bytes(enc[1])) = "None"
                                  THEN "InvalidImage" ELSE @]
                /\ UNCHANGED <<response, escaped, via>>
    /\ UNCHANGED <<shared, request, detected>>

\* The call model(frame, ...) with threshold conf: it raises, or returns the
\* candidates of some scene at or above conf; the loop's variables are set.
Invoke(r, conf, SS) ==
    /\ calls' = [calls EXCEPT ![r] = @ + 1]
    /\ call_conf' = [call_conf EXCEPT ![r] = conf]
    /\ \/ /\ oracle' = [oracle EXCEPT ![r] = [raises |-> TRUE, scene |-> <<>>]]
          /\ OuterExcept(r, "InferenceError", "InferenceError")
          /\ UNCHANGED <<detections, idx, loop>>
       \/ /\ \E scene \in SS :
                 /\ oracle' = [oracle EXCEPT ![r] = [raises |-> FALSE, scene |-> scene]]
                 /\ detections' = [detections EXCEPT ![r] = Detector(scene, conf)]
          /\ idx' = [idx EXCEPT ![r] = 1]
          /\ loop' = [loop EXCEPT ![r] = LoopInit]
          /\ pc' = [pc EXCEPT ![r] = "resolving"]
          /\ UNCHANGED <<response, escaped, failure, via>>

\* api 67: `if not model`.
ApiModelCheckSkipped == FALSE
ApiModelNotLoaded == ~model["api"]

\* api 67-74: the model check, then model(frame, conf=0.5).
ApiDetect(r, SS) ==
    /\ pc[r] = "detecting"
    /\ request[r].svc = "api"
    /\ IF ApiModelNotLoaded
       THEN /\ EarlyReturn(r, ModelNotLoadedResult, "BackendUnavailable")
            /\ UNCHANGED detected
       ELSE Invoke(r, ApiConf, SS)
    /\ UNCHANGED <<shared, request, decoded>>

\* server 54-57: model(frame, verbose=False). When the load of line 21 failed
\* the name model is unbound and evaluating it raises NameError before any call.
ServerDetect(r, SS) ==
    /\ pc[r] = "detecting"
    /\ request[r].svc = "server"
    /\ IF ~model["server"]
       THEN /\ OuterExcept(r, "NameError", "BackendUnavailable")
            /\ UNCHANGED detected
       ELSE Invoke(r, DefaultConf, SS)
    /\ UNCHANGED <<shared, request, decoded>>

\* One iteration of the loop (api 76-90, server 66-85). The server's frame is
\* one image, so results holds one element and the break of line 78 ends the scan.
Loop(r) ==
    /\ pc[r] = "resolving"
    /\ idx[r] <= Len(detections[r])
    /\ ~loop[r].stop
    /\ LET svc == request[r].svc
           d   == detections[r][idx[r]]
       IN  /\ loop' = [loop EXCEPT ![r] = LoopBody(svc, @, d, THREAT_MAP[svc])]
           /\ THREAT_MAP' = [THREAT_MAP EXCEPT ![svc] = TableAfterGet(@, names[d.cls])]
    /\ idx' = [idx EXCEPT ![r] = @ + 1]
    /\ UNCHANGED <<model, pc, request, decoded, detections, calls, call_conf, oracle,
                   response, escaped, failure, via>>

\* The return after the loop (api 92-96, server 87).
Respond(r) ==
    /\ pc[r] = "resolving"
    /\ idx[r] > Len(detections[r]) \/ loop[r].stop
    /\ Finish(r, Verdict(request[r].svc, loop[r]), "resolve", "none")
    /\ UNCHANGED <<shared, request, decoded, detected, escaped>>

Step(r, II, SS) ==
    \/ Start(r, II)
    \/ Receive(r)
    \/ ApiDecode(r)
    \/ ServerDecode(r)
    \/ ApiDetect(r, SS)
    \/ ServerDetect(r, SS)
    \/ Loop(r)
    \/ Respond(r)

\* One request at a time, over every input.
Next == Step(1, Inputs, Scenes)

Spec == Init /\ [][Next]_vars

\* One body for every path through the decode stage of either handler.
PathInputs ==
    {[kind |-> "badjson", image |-> <<>>],
     [kind |-> "absent",  image |-> <<>>],
     [kind |-> "nonstr",  image |-> <<>>],
     [kind |-> "str", image |-> <<"G">>],
     [kind |-> "str", image |-> <<"Z", ",", "G">>],
     [kind |-> "str", image |-> <<"Z", ",", "Z">>],
     [kind |-> "str", image |-> <<"Z", ",", "u">>],
     [kind |-> "str", image |-> <<"Z", ",">>]}

\* Scenes that take every branch of either loop.
PathScenes ==
    {<<>>,
     <<[cls |-> 43, conf |-> 625]>>,
     <<[cls |-> 16, conf |-> 625], [cls |-> 39, conf |-> 300]>>,
     <<[cls |-> 39, conf |-> 625], [cls |-> 0, conf |-> 300]>>}

\* Concurrent requests, over those inputs.

NextConc == \E r \in Requests : Step(r, PathInputs, PathScenes)

SpecConc == Init /\ [][NextConc]_vars

\* One request over those inputs; the event loop runs a started handler until
\* it returns.
NextFair == Step(1, PathInputs, PathScenes)

FairSpec == Init /\ [][NextFair]_vars /\ WF_vars(NextFair)

\* ------------------------------------------------------------- claims
Levels == {"SAFE", "CAUTION", "DANGER"}
Rank(l) == CASE l = "SAFE" -> 0 [] l = "CAUTION" -> 1 [] l = "DANGER" -> 2

Done(r) == pc[r] = "done"
Resolved(r) == via[r] = "resolve"
Svc(r) == request[r].svc
Result(r) == response[r][1]

\* The table level of a detection: absent labels count as SAFE.
LevelOf(r, d) == Get(THREAT_MAP[Svc(r)], names[d.cls])

\* The maximum of the table levels of D; SAFE for the empty sequence.
MaxLevel(r, D) ==
    LET ranks == {Rank(LevelOf(r, D[i])) : i \in 1 .. Len(D)} \cup {0}
        top   == CHOOSE k \in ranks : \A j \in ranks : j <= k
    IN  CHOOSE l \in Levels : Rank(l) = top

Orders(n) == {p \in [1 .. n -> 1 .. n] : \A i, j \in 1 .. n : p[i] = p[j] => i = j}
Permute(D, p) == [i \in 1 .. Len(D) |-> D[p[i]]]

\* C1: the threat of a resolved request is the maximum, under
\* SAFE < CAUTION < DANGER, of the table levels of its detections (SAFE for an
\* absent label and for no detection), and the loop run on any permutation of
\* the detections ends at the same threat.
C1_ThreatIsMaximum ==
    \A r \in Requests :
        Resolved(r) =>
            /\ Result(r).threat = MaxLevel(r, detections[r])
            /\ \A p \in Orders(Len(detections[r])) :
                   RunLoop(Svc(r), LoopInit, Permute(detections[r], p), 1,
                           THREAT_MAP[Svc(r)]).threat = Result(r).threat

\* A resolved request whose first detection is DANGER and whose second is lower.
C1_Witness ==
    \E r \in Requests :
        /\ Resolved(r)
        /\ Len(detections[r]) = 2
        /\ LevelOf(r, detections[r][1]) = "DANGER"
        /\ LevelOf(r, detections[r][2]) = "CAUTION"
        /\ Result(r).threat = "DANGER"

\* The inventory the claim expects for D: one entry per detection, in order.
Inventory(D) ==
    [i \in 1 .. Len(D) |-> [class |-> names[D[i].cls], confidence |-> Round2(D[i].conf)]]

\* C2: a resolved request's result has an objects list with one
\* {class, confidence} entry per detection, in emission order with duplicates
\* kept, and count equal to its length, also after a DANGER detection.
C2_InventoryComplete ==
    \A r \in Requests :
        Resolved(r) =>
            /\ "objects" \in DOMAIN Result(r)
            /\ "count" \in DOMAIN Result(r)
            /\ Result(r).objects = Inventory(detections[r])
            /\ Result(r).count = Len(detections[r])

\* C3: a request in which a stage failed is answered with threat SAFE.
C3_FailureForcesSafe ==
    \A r \in Requests :
        (Done(r) /\ failure[r] # "none" /\ Len(response[r]) > 0) => Result(r).threat = "SAFE"

\* C4: after NoData, DecodeError or InvalidImage the detector is never invoked
\* and the request ends with a SAFE result.
C4_FirstFailureTerminal ==
    \A r \in Requests :
        failure[r] \in {"NoData", "DecodeError", "InvalidImage"} =>
            /\ calls[r] = 0
            /\ Done(r) => (Len(response[r]) = 1 /\ Result(r).threat = "SAFE")

C6_ExactlyOneResult ==
    /\ [](\A r \in Requests :
              /\ ~escaped[r]
              /\ ~Done(r) => response[r] = <<>>
              /\ Done(r) => (Len(response[r]) = 1 /\ Result(r).threat \in Levels))
    /\ (pc[1] = "init") ~> Done(1)

\* A request answered by the except clause after the detector raised.
C6_Witness ==
    \E r \in Requests :
        /\ Done(r)
        /\ via[r] = "except"
        /\ oracle[r].raises
        /\ Len(response[r]) = 1

\* Everything after the first comma of s.
AfterFirstComma(s) ==
    LET k == CHOOSE i \in 1 .. Len(s) : s[i] = "," /\ \A j \in 1 .. (i - 1) : s[j] # ","
    IN  SubSeq(s, k + 1, Len(s))

\* C7: for a non-empty payload string the body handed to base-64 decoding is
\* everything after the first comma, or the whole string when it has no comma.
C7_BodyAfterFirstComma ==
    \A r \in Requests :
        LET inp == request[r].inp
        IN  (inp.kind = "str" /\ inp.image # <<>> /\ pc[r] \in {"detecting", "resolving", "done"}) =>
                encoded_data[r] =
                    << IF HasComma(inp.image) THEN AfterFirstComma(inp.image) ELSE inp.image >>

\* C8: the label backend/server.py reports is the label of the first
\* detection whose table level equals the final threat.
C8_FirstDrivingLabel ==
    \A r \in Requests :
        (Resolved(r) /\ Svc(r) = "server" /\ detections[r] # <<>>) =>
            LET D     == detections[r]
                first == CHOOSE i \in 1 .. Len(D) :
                             /\ LevelOf(r, D[i]) = Result(r).threat
                             /\ \A j \in 1 .. (i - 1) : LevelOf(r, D[j]) # Result(r).threat
            IN  Result(r).label = Upper(names[D[first].cls])

C10_ThresholdApplied ==
    \A r \in Requests :
        calls[r] > 0 =>
            /\ call_conf[r] = ApiConf
            /\ \A i \in 1 .. Len(detections[r]) : detections[r][i].conf >= ApiConf

====
